---- MODULE Spec2Model ----
(***************************************************************************)
(* State-machine model of chrono::ChLinkDistance                           *)
(* (src/src/chrono/physics/ChLinkDistance.cpp): one distance-constraint    *)
(* element, the scalar constraint Cx it owns, the two body frames it is    *)
(* bound to, and the solver bookkeeping protocol it implements.            *)
(*                                                                         *)
(* Reals are modelled by integers.  Separations are restricted to vectors  *)
(* whose Euclidean length and unit direction are integral (Representable), *)
(* so that Length and Vnorm are exact.  Body frames carry a translation    *)
(* only (identity rotation).  Caller-supplied vectors (L, Qc, R) and the   *)
(* system descriptor are inputs of each call; the vector handed back is    *)
(* recorded in `out`, the call and its arguments in `op` and `arg`, when    *)
(* the behaviour records its calls.                                        *)
(***************************************************************************)
EXTENDS Integers, Sequences, FiniteSets, TLC

VARIABLES
    mode,          \* ChLinkDistance::mode
    mode_sign,     \* ChLinkDistance::mode_sign
    Cx,            \* the owned ChConstraintTwoBodies: mode, l_i, b_i, Cq_a, Cq_b, variables
    Body1, Body2,  \* ChLink::Body1, ChLink::Body2 (NULL when unbound)
    pos1, pos2,    \* anchors in body-local coordinates
    distance,      \* imposed distance
    curr_dist,     \* current distance
    C,             \* constraint violation C[0]
    react_force,   \* ChLink::react_force
    react_torque,  \* ChLink::react_torque
    active,        \* what IsActive() returns
    frames,        \* world position of each body frame
    crashed,       \* the process died on a null body handle
    recording,     \* whether the calls are recorded (fixed by the initial state)
    op, arg, out   \* the last call, its arguments, and what it handed back

vars == <<mode, mode_sign, Cx, Body1, Body2, pos1, pos2, distance, curr_dist, C,
          react_force, react_torque, active, frames, crashed, recording, op, arg, out>>

elem == <<mode, mode_sign, Cx, Body1, Body2, pos1, pos2, distance, curr_dist, C,
          react_force, react_torque, active>>

-----------------------------------------------------------------------------
(* Bounds of the model *)

MaxCoord == 3
MaxDist == 2
MaxMult == 1
MaxBias == 2

-----------------------------------------------------------------------------
(* Values *)

\* IEEE not-a-number, as a value no computation of the model produces otherwise
NaN == 1000000

IsNaN(x) == x = NaN

Add(a, b) == IF IsNaN(a) \/ IsNaN(b) THEN NaN ELSE a + b

Sub(a, b) == IF IsNaN(a) \/ IsNaN(b) THEN NaN ELSE a - b

Mul(a, b) == IF IsNaN(a) \/ IsNaN(b) THEN NaN ELSE a * b

Neg(a) == IF IsNaN(a) THEN NaN ELSE 0 - a

\* (a > b) ? a : b, a comparison with NaN being false
ChMax(a, b) == IF (~IsNaN(a)) /\ (~IsNaN(b)) /\ a > b THEN a ELSE b

\* (a < b) ? a : b
ChMin(a, b) == IF (~IsNaN(a)) /\ (~IsNaN(b)) /\ a < b THEN a ELSE b

VNULL == <<0, 0, 0>>

VAdd(a, b) == <<Add(a[1], b[1]), Add(a[2], b[2]), Add(a[3], b[3])>>

VSub(a, b) == <<Sub(a[1], b[1]), Sub(a[2], b[2]), Sub(a[3], b[3])>>

VNeg(a) == <<Neg(a[1]), Neg(a[2]), Neg(a[3])>>

VScale(s, a) == <<Mul(s, a[1]), Mul(s, a[2]), Mul(s, a[3])>>

Vcross(a, b) ==
    << Sub(Mul(a[2], b[3]), Mul(a[3], b[2])),
       Sub(Mul(a[3], b[1]), Mul(a[1], b[3])),
       Sub(Mul(a[1], b[2]), Mul(a[2], b[1])) >>

SumSq(v) == v[1] * v[1] + v[2] * v[2] + v[3] * v[3]

\* the separations whose length and unit direction are integers
Representable(v) ==
    \E s \in {SumSq(v)} :
        \E n \in 0..(2 * MaxCoord + 2) :
            /\ n * n = s
            /\ n > 0 => \A i \in 1..3 : v[i] % n = 0

\* ChVector::Length
Length(v) == LET s == SumSq(v) IN CHOOSE n \in 0..(2 * MaxCoord + 2) : n * n = s

\* Vnorm: the unit vector of v.  For the zero vector the result is not defined
\* by the element: a division of zero by zero (not-a-number in every
\* component) or a fixed fallback axis.
Vnorm(v) ==
    LET len == Length(v)
    IN  IF len = 0
        THEN { <<NaN, NaN, NaN>>, <<1, 0, 0>> }
        ELSE { <<v[1] \div len, v[2] \div len, v[3] \div len>> }

-----------------------------------------------------------------------------
(* Bodies and their frames *)

NULL == "NULL"

Bodies == {"body1", "body2"}

\* positions a body frame can take: body 1 rests at the origin, body 2 moves
\* along the x axis
FramePos(b) ==
    IF b = "body1" THEN { VNULL }
    ELSE { <<x, 0, 0>> : x \in 0..MaxCoord }

\* the positions used where the geometry is not what is examined
FramePosSmall(b) ==
    IF b = "body1" THEN { VNULL }
    ELSE { VNULL, <<MaxCoord, 0, 0>> }

TransformPointLocalToParent(b, p) == VAdd(frames[b], p)

TransformPointParentToLocal(b, p) == VSub(p, frames[b])

TransformDirectionParentToLocal(b, d) == d

-----------------------------------------------------------------------------
(* Inputs *)

Modes == {"BILATERAL", "UNILATERAL_MAXDISTANCE", "UNILATERAL_MINDISTANCE"}

\* points handed to Initialize and read by ArchiveIn
AnchorSet == { VNULL, <<0, 1, 0>> }

Distances == 0..MaxDist

\* what a read of an uninitialized or out-of-object scalar can yield
Indeterminate == {-1, 0, 1}

Offsets == {1, 2}

LVals == (0 - MaxMult)..MaxMult

QcVals == {0, 1}

Factors == {-1, 2}

RecoveryClamps == {1}

\* a caller's vector: x at offset off, a fixed non-zero pattern elsewhere
VecWith(off, x) == [o \in Offsets |-> IF o = off THEN x ELSE 10 + o]

ZeroRow == <<0, 0, 0, 0, 0, 0>>

\* residual vectors handed to IntLoadResidual_CqL: rows of body 1 and body 2
Residuals == { ZeroRow \o ZeroRow, <<1, 1, 1, 1, 1, 1>> \o <<1, 1, 1, 1, 1, 1>> }

Descriptors == { <<>>, <<"other">> }

NoArg == [none |-> TRUE]

NoOut == [none |-> TRUE]

\* the call o(a) handed back r
Record(o, a, r) ==
    /\ recording' = recording
    /\ op' = (IF recording THEN o ELSE "")
    /\ arg' = (IF recording THEN a ELSE NoArg)
    /\ out' = (IF recording THEN r ELSE NoOut)

-----------------------------------------------------------------------------
(* The element *)

IsActive == active

ModeSign(m) == IF m = "UNILATERAL_MAXDISTANCE" THEN -1 ELSE 1

ConstraintMode(m) ==
    IF m = "BILATERAL" THEN "CONSTRAINT_LOCK" ELSE "CONSTRAINT_UNILATERAL"

\* a default-constructed ChConstraintTwoBodies
DefaultCx ==
    [mode |-> "CONSTRAINT_LOCK", l_i |-> 0, b_i |-> 0,
     Cq_a |-> ZeroRow, Cq_b |-> ZeroRow, variables |-> <<NULL, NULL>>]

\* ChLinkDistance::ChLinkDistance(): pos1, pos2, distance, curr_dist zeroed,
\* SetMode(BILATERAL); C is not initialized
Constructed ==
    /\ mode = "BILATERAL"
    /\ mode_sign = ModeSign("BILATERAL")
    /\ Cx = [DefaultCx EXCEPT !.mode = ConstraintMode("BILATERAL")]
    /\ Body1 = NULL /\ Body2 = NULL
    /\ pos1 = VNULL /\ pos2 = VNULL
    /\ distance = 0 /\ curr_dist = 0
    /\ C \in Indeterminate
    /\ react_force = VNULL /\ react_torque = VNULL
    /\ active = TRUE
    /\ crashed = FALSE
    /\ op = "" /\ arg = NoArg /\ out = NoOut

\* every operation, calls not recorded
Init ==
    /\ Constructed
    /\ recording = FALSE
    /\ frames \in { [body1 |-> VNULL, body2 |-> p] : p \in FramePosSmall("body2") }

InitSmall ==
    /\ Constructed
    /\ recording = TRUE
    /\ frames \in { [body1 |-> VNULL, body2 |-> p] : p \in FramePosSmall("body2") }

InitGeom ==
    /\ Constructed
    /\ recording = TRUE
    /\ frames \in { [body1 |-> VNULL, body2 |-> p] : p \in FramePos("body2") }

\* SetMode that forgets the constraint kind
SetMode_KeepsKind(m) ==
    /\ ~crashed
    /\ mode' = m
    /\ mode_sign' = ModeSign(m)
    /\ Record("SetMode", [mode |-> m], NoOut)
    /\ UNCHANGED <<Cx, Body1, Body2, pos1, pos2, distance, curr_dist, C,
                   react_force, react_torque, active, frames, crashed>>

\* SetMode that recomputes the violation for the new sign
SetMode_RecomputesC(m) ==
    /\ ~crashed
    /\ mode' = m
    /\ mode_sign' = ModeSign(m)
    /\ Cx' = [Cx EXCEPT !.mode = ConstraintMode(m)]
    /\ C' = ModeSign(m) * (curr_dist - distance)
    /\ Record("SetMode", [mode |-> m], NoOut)
    /\ UNCHANGED <<Body1, Body2, pos1, pos2, distance, curr_dist,
                   react_force, react_torque, active, frames, crashed>>

SetMode(m) ==
    /\ ~crashed
    /\ mode' = m
    /\ mode_sign' = ModeSign(m)
    /\ Cx' = [Cx EXCEPT !.mode = ConstraintMode(m)]
    /\ Record("SetMode", [mode |-> m], NoOut)
    /\ UNCHANGED <<Body1, Body2, pos1, pos2, distance, curr_dist, C,
                   react_force, react_torque, active, frames, crashed>>

\* the separation of the two anchors in the world frame
DeltaPos(b1, b2, p1, p2) ==
    VSub(TransformPointLocalToParent(b1, p1), TransformPointLocalToParent(b2, p2))

\* Initialize, lines 55-80, with both body handles set
InitializeBound(mbody1, mbody2, pos_are_relative, mpos1, mpos2, auto_distance, mdistance, m) ==
    \E p1 \in {IF pos_are_relative THEN mpos1 ELSE TransformPointParentToLocal(mbody1, mpos1)},
       p2 \in {IF pos_are_relative THEN mpos2 ELSE TransformPointParentToLocal(mbody2, mpos2)} :
      \E delta_pos \in {DeltaPos(mbody1, mbody2, p1, p2)} :
        /\ Representable(delta_pos)
        /\ mode' = m
        /\ mode_sign' = ModeSign(m)
        /\ Cx' = [Cx EXCEPT !.mode = ConstraintMode(m), !.variables = <<mbody1, mbody2>>]
        /\ Body1' = mbody1 /\ Body2' = mbody2
        /\ pos1' = p1 /\ pos2' = p2
        /\ curr_dist' = Length(delta_pos)
        /\ distance' = (IF auto_distance THEN curr_dist' ELSE mdistance)
        /\ C' = mode_sign' * (curr_dist' - distance')
        /\ UNCHANGED <<react_force, react_torque, active, frames, crashed>>

\* Initialize with a null handle: SetMode (line 55) and the two pointer
\* assignments (57-58) are done, then line 59 calls Variables() through the null
\* pointer.  Either the process dies there, or execution runs on with
\* indeterminate values for whatever is read through the handle and the
\* function returns true (line 80).
InitializeNull(mbody1, mbody2, pos_are_relative, mpos1, mpos2, auto_distance, mdistance, m) ==
    /\ mode' = m
    /\ mode_sign' = ModeSign(m)
    /\ Body1' = mbody1 /\ Body2' = mbody2
    /\ \/ /\ crashed' = TRUE
          /\ Cx' = [Cx EXCEPT !.mode = ConstraintMode(m)]
          /\ UNCHANGED <<pos1, pos2, distance, curr_dist, C>>
       \/ /\ crashed' = FALSE
          /\ Cx' = [Cx EXCEPT !.mode = ConstraintMode(m), !.variables = <<mbody1, mbody2>>]
          /\ pos1' \in (IF pos_are_relative \/ mbody1 # NULL
                        THEN {IF pos_are_relative THEN mpos1
                              ELSE TransformPointParentToLocal(mbody1, mpos1)}
                        ELSE AnchorSet)
          /\ pos2' \in (IF pos_are_relative \/ mbody2 # NULL
                        THEN {IF pos_are_relative THEN mpos2
                              ELSE TransformPointParentToLocal(mbody2, mpos2)}
                        ELSE AnchorSet)
          /\ curr_dist' \in Indeterminate
          /\ distance' = (IF auto_distance THEN curr_dist' ELSE mdistance)
          /\ C' = ModeSign(m) * (curr_dist' - distance')
    /\ UNCHANGED <<react_force, react_torque, active, frames>>

Initialize(mbody1, mbody2, pos_are_relative, mpos1, mpos2, auto_distance, mdistance, m) ==
    /\ ~crashed
    /\ IF mbody1 # NULL /\ mbody2 # NULL
       THEN InitializeBound(mbody1, mbody2, pos_are_relative, mpos1, mpos2,
                            auto_distance, mdistance, m)
       ELSE InitializeNull(mbody1, mbody2, pos_are_relative, mpos1, mpos2,
                           auto_distance, mdistance, m)
    \* line 80 returns true; a process that died returns nothing
    /\ Record("Initialize", [mbody1 |-> mbody1, mbody2 |-> mbody2],
              [returned |-> ~crashed', ret |-> 1])

\* Update that leaves the sign out of the violation
UpdateWith_Unsigned(delta_pos, dir_F1_F2_W) ==
    /\ curr_dist' = Length(delta_pos)
    /\ Cx' = Cx
    /\ C' = curr_dist' - distance

\* the Jacobian row and violation Update stores for unit direction dir_F1_F2_W
UpdateWith(delta_pos, dir_F1_F2_W) ==
    LET dir_F1_F2_B2 == TransformDirectionParentToLocal(Body2, dir_F1_F2_W)
        dir_F1_F2_B1 == TransformDirectionParentToLocal(Body1, dir_F1_F2_W)
        Cq_B1_pos == dir_F1_F2_W
        Cq_B2_pos == VNeg(dir_F1_F2_W)
        Cq_B1_rot == VNeg(Vcross(dir_F1_F2_B1, pos1))
        Cq_B2_rot == Vcross(dir_F1_F2_B2, pos2)
    IN  /\ curr_dist' = Length(delta_pos)
        /\ Cx' = [Cx EXCEPT
                    !.Cq_a = VScale(mode_sign, Cq_B1_pos) \o VScale(mode_sign, Cq_B1_rot),
                    !.Cq_b = VScale(mode_sign, Cq_B2_pos) \o VScale(mode_sign, Cq_B2_rot)]
        /\ C' = mode_sign * (curr_dist' - distance)

\* Update is called by the owning system on an element whose bodies are bound
Update ==
    /\ ~crashed
    /\ Body1 # NULL /\ Body2 # NULL
    /\ \E delta_pos \in {DeltaPos(Body1, Body2, pos1, pos2)} :
           /\ Representable(delta_pos)
           /\ \E dir_F1_F2_W \in Vnorm(delta_pos) : UpdateWith(delta_pos, dir_F1_F2_W)
    /\ Record("Update", NoArg, NoOut)
    /\ UNCHANGED <<mode, mode_sign, Body1, Body2, pos1, pos2, distance,
                   react_force, react_torque, active, frames, crashed>>

\* ChLinkDistance(const ChLinkDistance& other): the element under observation
\* becomes a copy of itself.  Cx is default-constructed, then given the mode and
\* the variables; C is not initialized.
CopyConstruct ==
    /\ ~crashed
    /\ Body1 # NULL /\ Body2 # NULL
    /\ mode' = mode
    /\ mode_sign' = ModeSign(mode)
    /\ Cx' = [DefaultCx EXCEPT !.mode = ConstraintMode(mode), !.variables = <<Body1, Body2>>]
    /\ C' \in Indeterminate
    /\ Record("ChLinkDistance", [other |-> TRUE], NoOut)
    /\ UNCHANGED <<Body1, Body2, pos1, pos2, distance, curr_dist,
                   react_force, react_torque, active, frames, crashed>>

\* ArchiveIn on an element whose bodies are bound
ArchiveIn(adistance, apos1, apos2, mode_temp) ==
    /\ ~crashed
    /\ Body1 # NULL /\ Body2 # NULL
    /\ distance' = adistance
    /\ pos1' = apos1 /\ pos2' = apos2
    /\ mode' = mode_temp
    /\ mode_sign' = ModeSign(mode_temp)
    /\ Cx' = [Cx EXCEPT !.mode = ConstraintMode(mode_temp), !.variables = <<Body1, Body2>>]
    /\ Record("ArchiveIn", NoArg, NoOut)
    /\ UNCHANGED <<Body1, Body2, curr_dist, C,
                   react_force, react_torque, active, frames, crashed>>

(* The environment: the bodies move, the system enables or disables the link *)

SetPos(b, p) ==
    /\ ~crashed
    /\ frames[b] # p
    /\ frames' = [frames EXCEPT ![b] = p]
    /\ Record("SetPos", NoArg, NoOut)
    /\ UNCHANGED <<elem, crashed>>

SetDisabled(mdis) ==
    /\ ~crashed
    /\ active # ~mdis
    /\ active' = ~mdis
    /\ Record("SetDisabled", NoArg, NoOut)
    /\ UNCHANGED <<mode, mode_sign, Cx, Body1, Body2, pos1, pos2, distance, curr_dist, C,
                   react_force, react_torque, frames, crashed>>

-----------------------------------------------------------------------------
(* State bookkeeping and solver interface *)

\* a gather that reads the multiplier of Cx
IntStateGatherReactions_FromCx(off_L, L) ==
    /\ ~crashed
    /\ Record("IntStateGatherReactions", [off_L |-> off_L, L |-> L],
              [L |-> [L EXCEPT ![off_L] = Cx.l_i]])
    /\ UNCHANGED <<elem, frames, crashed>>

IntStateGatherReactions(off_L, L) ==
    /\ ~crashed
    /\ Record("IntStateGatherReactions", [off_L |-> off_L, L |-> L],
              [L |-> [L EXCEPT ![off_L] = 0 - react_force[1]]])
    /\ UNCHANGED <<elem, frames, crashed>>

IntStateScatterReactions(off_L, L) ==
    /\ ~crashed
    /\ react_force' = <<0 - L[off_L], 0, 0>>
    /\ react_torque' = VNULL
    /\ Record("IntStateScatterReactions", [off_L |-> off_L, L |-> L], NoOut)
    /\ UNCHANGED <<mode, mode_sign, Cx, Body1, Body2, pos1, pos2, distance, curr_dist, C,
                   active, frames, crashed>>

\* ChConstraintTwoBodies::MultiplyTandAdd: result += Cq' * l on the rows of the
\* two bodies' variables
MultiplyTandAdd(R, l) ==
    [i \in 1..12 |-> Add(R[i], Mul((Cx.Cq_a \o Cx.Cq_b)[i], l))]

IntLoadResidual_CqL(off_L, R, L, c) ==
    /\ ~crashed
    /\ Record("IntLoadResidual_CqL", [off_L |-> off_L, R |-> R, L |-> L, c |-> c],
              [R |-> IF ~IsActive THEN R ELSE MultiplyTandAdd(R, L[off_L] * c)])
    /\ UNCHANGED <<elem, frames, crashed>>

\* the symmetric clamp in every mode
LoadConstraintTerm_Symmetric(c, do_clamp, recovery_clamp) ==
    IF do_clamp
    THEN ChMin(ChMax(c * C, 0 - recovery_clamp), recovery_clamp)
    ELSE c * C

\* what IntLoadConstraint_C adds to Qc(off_L) on an active element
LoadConstraintTerm(c, do_clamp, recovery_clamp) ==
    IF do_clamp
    THEN IF mode = "BILATERAL"
         THEN ChMin(ChMax(c * C, 0 - recovery_clamp), recovery_clamp)
         ELSE ChMax(c * C, 0 - recovery_clamp)
    ELSE c * C

IntLoadConstraint_C(off_L, Qc, c, do_clamp, recovery_clamp) ==
    /\ ~crashed
    /\ Record("IntLoadConstraint_C",
              [off_L |-> off_L, Qc |-> Qc, c |-> c, do_clamp |-> do_clamp,
               recovery_clamp |-> recovery_clamp],
              [Qc |-> IF ~IsActive THEN Qc
                      ELSE [Qc EXCEPT ![off_L] =
                                @ + LoadConstraintTerm(c, do_clamp, recovery_clamp)]])
    /\ UNCHANGED <<elem, frames, crashed>>

IntToDescriptor(off_L, L, Qc) ==
    /\ ~crashed
    /\ Cx' = IF ~IsActive THEN Cx
             ELSE [Cx EXCEPT !.l_i = L[off_L], !.b_i = Qc[off_L]]
    /\ Record("IntToDescriptor", [off_L |-> off_L, L |-> L, Qc |-> Qc], NoOut)
    /\ UNCHANGED <<mode, mode_sign, Body1, Body2, pos1, pos2, distance, curr_dist, C,
                   react_force, react_torque, active, frames, crashed>>

\* a pull that hands back the bias
IntFromDescriptor_Bias(off_L, L) ==
    /\ ~crashed
    /\ Record("IntFromDescriptor", [off_L |-> off_L, L |-> L],
              [L |-> IF ~IsActive THEN L ELSE [L EXCEPT ![off_L] = Cx.b_i]])
    /\ UNCHANGED <<elem, frames, crashed>>

IntFromDescriptor(off_L, L) ==
    /\ ~crashed
    /\ Record("IntFromDescriptor", [off_L |-> off_L, L |-> L],
              [L |-> IF ~IsActive THEN L ELSE [L EXCEPT ![off_L] = Cx.l_i]])
    /\ UNCHANGED <<elem, frames, crashed>>

InjectConstraints(mdescriptor) ==
    /\ ~crashed
    /\ Record("InjectConstraints", [mdescriptor |-> mdescriptor],
              [mdescriptor |-> IF ~IsActive THEN mdescriptor
                               ELSE Append(mdescriptor, "Cx")])
    /\ UNCHANGED <<elem, frames, crashed>>

ConstraintsBiReset ==
    /\ ~crashed
    /\ Cx' = [Cx EXCEPT !.b_i = 0]
    /\ Record("ConstraintsBiReset", NoArg, NoOut)
    /\ UNCHANGED <<mode, mode_sign, Body1, Body2, pos1, pos2, distance, curr_dist, C,
                   react_force, react_torque, active, frames, crashed>>

\* what ConstraintsBiLoad_C adds to b_i on an active element
BiLoadTerm(factor, recovery_clamp, do_clamp) ==
    IF do_clamp
    THEN ChMin(ChMax(factor * C, 0 - recovery_clamp), recovery_clamp)
    ELSE factor * C

\* the accumulated bias is kept within MaxBias
ConstraintsBiLoad_C(factor, recovery_clamp, do_clamp) ==
    /\ ~crashed
    /\ LET b == IF ~IsActive THEN Cx.b_i
                ELSE Cx.b_i + BiLoadTerm(factor, recovery_clamp, do_clamp)
       IN  /\ b \in (0 - MaxBias)..MaxBias
           /\ Cx' = [Cx EXCEPT !.b_i = b]
    /\ Record("ConstraintsBiLoad_C",
              [factor |-> factor, recovery_clamp |-> recovery_clamp, do_clamp |-> do_clamp],
              NoOut)
    /\ UNCHANGED <<mode, mode_sign, Body1, Body2, pos1, pos2, distance, curr_dist, C,
                   react_force, react_torque, active, frames, crashed>>

ConstraintsLoadJacobians ==
    /\ ~crashed
    /\ Record("ConstraintsLoadJacobians", NoArg, NoOut)
    /\ UNCHANGED <<elem, frames, crashed>>

ConstraintsFetch_react(factor) ==
    /\ ~crashed
    /\ react_force' = <<(0 - Cx.l_i) * factor, 0, 0>>
    /\ react_torque' = VNULL
    /\ Record("ConstraintsFetch_react", [factor |-> factor], NoOut)
    /\ UNCHANGED <<mode, mode_sign, Cx, Body1, Body2, pos1, pos2, distance, curr_dist, C,
                   active, frames, crashed>>

-----------------------------------------------------------------------------
(* Specifications *)

\* Every operation, over a small set of inputs
Next ==
    \/ \E m \in Modes : SetMode(m)
    \/ \E mbody1 \in {NULL, "body1"}, mbody2 \in {NULL, "body2"}, auto_distance \in BOOLEAN,
          m \in Modes :
            Initialize(mbody1, mbody2, TRUE, VNULL, VNULL, auto_distance, 1, m)
    \/ Update
    \/ CopyConstruct
    \/ \E m \in Modes : ArchiveIn(1, VNULL, VNULL, m)
    \/ \E p \in FramePosSmall("body2") : SetPos("body2", p)
    \/ \E mdis \in BOOLEAN : SetDisabled(mdis)
    \/ IntStateGatherReactions(1, VecWith(1, 1))
    \/ IntStateScatterReactions(2, VecWith(2, 1))
    \/ IntLoadResidual_CqL(1, ZeroRow \o ZeroRow, VecWith(1, 1), 2)
    \/ \E do_clamp \in BOOLEAN : IntLoadConstraint_C(2, VecWith(2, 1), 2, do_clamp, 1)
    \/ IntToDescriptor(1, VecWith(1, -1), VecWith(1, 1))
    \/ IntFromDescriptor(1, VecWith(1, 0))
    \/ InjectConstraints(<<"other">>)
    \/ ConstraintsBiReset
    \/ \E do_clamp \in BOOLEAN : ConstraintsBiLoad_C(-1, 1, do_clamp)
    \/ ConstraintsLoadJacobians
    \/ ConstraintsFetch_react(2)

Spec == Init /\ [][Next]_vars

\* The solver protocol on an initialized element, calls recorded
NextSolver ==
    \/ \E m \in Modes : SetMode(m)
    \/ \E m \in Modes : Initialize("body1", "body2", TRUE, VNULL, VNULL, FALSE, 1, m)
    \/ Update
    \/ \E p \in FramePosSmall("body2") : SetPos("body2", p)
    \/ \E mdis \in BOOLEAN : SetDisabled(mdis)
    \/ IntStateGatherReactions(1, VecWith(1, 1))
    \/ IntStateScatterReactions(2, VecWith(2, 1))
    \/ IntLoadResidual_CqL(1, ZeroRow \o ZeroRow, VecWith(1, 1), 2)
    \/ \E do_clamp \in BOOLEAN : IntLoadConstraint_C(2, VecWith(2, 1), 2, do_clamp, 1)
    \/ IntToDescriptor(1, VecWith(1, -1), VecWith(1, 1))
    \/ IntFromDescriptor(1, VecWith(1, 0))
    \/ InjectConstraints(<<"other">>)
    \/ ConstraintsBiReset
    \/ \E do_clamp \in BOOLEAN : ConstraintsBiLoad_C(-1, 1, do_clamp)
    \/ ConstraintsLoadJacobians
    \/ ConstraintsFetch_react(2)

SpecSolver == InitSmall /\ [][NextSolver]_vars

\* Geometry: construction, initialization, motion of the bodies, update, and the
\* two residual accumulations that read what Update stored
NextGeom ==
    \/ \E m \in Modes : SetMode(m)
    \/ \E pos_are_relative \in BOOLEAN, mpos \in AnchorSet,
          auto_distance \in BOOLEAN, mdistance \in Distances, m \in Modes :
            Initialize("body1", "body2", pos_are_relative, mpos, mpos,
                       auto_distance, mdistance, m)
    \/ Update
    \/ \E p \in FramePos("body2") : SetPos("body2", p)
    \/ \E c \in {2} : IntLoadResidual_CqL(1, ZeroRow \o ZeroRow, VecWith(1, 1), c)

SpecGeom == InitGeom /\ [][NextGeom]_vars

\* Violation residual and bias: the clamp policies
NextClamp ==
    \/ \E m \in Modes : SetMode(m)
    \/ \E mdistance \in Distances, m \in Modes :
            Initialize("body1", "body2", TRUE, VNULL, VNULL, FALSE, mdistance, m)
    \/ \E mdis \in BOOLEAN : SetDisabled(mdis)
    \/ \E off_L \in Offsets, q \in QcVals, c \in Factors, do_clamp \in BOOLEAN,
          recovery_clamp \in RecoveryClamps :
            IntLoadConstraint_C(off_L, VecWith(off_L, q), c, do_clamp, recovery_clamp)
    \/ ConstraintsBiReset
    \/ \E factor \in Factors, recovery_clamp \in RecoveryClamps, do_clamp \in BOOLEAN :
            ConstraintsBiLoad_C(factor, recovery_clamp, do_clamp)

SpecClamp == InitGeom /\ [][NextClamp]_vars

\* Multiplier and reaction: descriptor round trip, gather and scatter
NextMult ==
    \/ \E mdis \in BOOLEAN : SetDisabled(mdis)
    \/ \E off_L \in Offsets, x \in LVals : IntStateGatherReactions(off_L, VecWith(off_L, x))
    \/ \E off_L \in Offsets, x \in LVals : IntStateScatterReactions(off_L, VecWith(off_L, x))
    \/ \E off_L \in Offsets, x \in LVals, q \in QcVals :
            IntToDescriptor(off_L, VecWith(off_L, x), VecWith(off_L, q))
    \/ \E off_L \in Offsets, x \in LVals : IntFromDescriptor(off_L, VecWith(off_L, x))
    \/ \E factor \in Factors : ConstraintsFetch_react(factor)

SpecMult == InitSmall /\ [][NextMult]_vars

\* Initialization with and without body handles, calls recorded
NextNull ==
    \/ \E m \in Modes : SetMode(m)
    \/ \E mbody1 \in {NULL, "body1"}, mbody2 \in {NULL, "body2"}, pos_are_relative \in BOOLEAN,
          mpos \in AnchorSet, auto_distance \in BOOLEAN, m \in Modes :
            Initialize(mbody1, mbody2, pos_are_relative, mpos, mpos, auto_distance, 1, m)
    \/ Update
    \/ \E p \in FramePosSmall("body2") : SetPos("body2", p)

SpecNull == InitSmall /\ [][NextNull]_vars

-----------------------------------------------------------------------------
(* Claims *)

\* C1: in every reachable state mode_sign is -1 exactly when mode is
\* UNILATERAL_MAXDISTANCE and +1 otherwise, and Cx is CONSTRAINT_LOCK exactly
\* when mode is BILATERAL and CONSTRAINT_UNILATERAL otherwise.
ModeSignAndKindFollowMode ==
    /\ mode \in Modes
    /\ (mode = "UNILATERAL_MAXDISTANCE") => (mode_sign = -1)
    /\ (mode # "UNILATERAL_MAXDISTANCE") => (mode_sign = 1)
    /\ (mode = "BILATERAL") => (Cx.mode = "CONSTRAINT_LOCK")
    /\ (mode # "BILATERAL") => (Cx.mode = "CONSTRAINT_UNILATERAL")

\* an initialized MAX_BOUND element that has been updated and has taken a
\* multiplier and a scattered reaction
MaxBoundAfterBookkeeping ==
    /\ mode = "UNILATERAL_MAXDISTANCE" /\ mode_sign = -1
    /\ Cx.mode = "CONSTRAINT_UNILATERAL"
    /\ Body1 # NULL /\ Body2 # NULL
    /\ Cx.Cq_a # ZeroRow
    /\ Cx.l_i # 0 /\ react_force # VNULL

\* C2: immediately after every Update, and after every Initialize with both
\* bodies, C[0] = mode_sign * (curr_dist - distance), curr_dist being the
\* separation of the two anchors under the current body poses.
ViolationAfterUpdate ==
    (op \in {"Update", "Initialize"} /\ Body1 # NULL /\ Body2 # NULL /\ ~crashed) =>
        /\ curr_dist = Length(DeltaPos(Body1, Body2, pos1, pos2))
        /\ (mode = "UNILATERAL_MAXDISTANCE") => (C = 0 - (curr_dist - distance))
        /\ (mode # "UNILATERAL_MAXDISTANCE") => (C = curr_dist - distance)

\* MAX_BOUND, current distance 3, target distance 2: the violation is -1
MaxBoundThreeVersusTwo ==
    /\ op = "Update"
    /\ mode = "UNILATERAL_MAXDISTANCE"
    /\ curr_dist = 3 /\ distance = 2
    /\ C = -1

\* the caller's vector or registry of the last call is as it was handed in
CallerDataUntouched(o, a, r) ==
    CASE o = "IntLoadResidual_CqL" -> r.R = a.R
      [] o = "IntLoadConstraint_C" -> r.Qc = a.Qc
      [] o = "IntFromDescriptor" -> r.L = a.L
      [] o = "InjectConstraints" -> r.mdescriptor = a.mdescriptor
      [] OTHER -> TRUE

GatedOperations ==
    {"IntLoadResidual_CqL", "IntLoadConstraint_C", "IntToDescriptor", "IntFromDescriptor",
     "InjectConstraints", "ConstraintsBiReset", "ConstraintsBiLoad_C",
     "ConstraintsLoadJacobians", "ConstraintsFetch_react"}

\* C3: on an inactive element each of IntLoadResidual_CqL, IntLoadConstraint_C,
\* IntToDescriptor, IntFromDescriptor, InjectConstraints, ConstraintsBiReset,
\* ConstraintsBiLoad_C, ConstraintsLoadJacobians and ConstraintsFetch_react
\* leaves the caller's vectors, the registry, the multiplier, the bias and the
\* reaction force and torque unchanged.
InactiveIsNoOp ==
    [][ (~active /\ op' \in GatedOperations) =>
            /\ CallerDataUntouched(op', arg', out')
            /\ Cx'.l_i = Cx.l_i /\ Cx'.b_i = Cx.b_i
            /\ react_force' = react_force /\ react_torque' = react_torque ]_vars

MinOf(a, b) == IF a <= b THEN a ELSE b

MaxOf(a, b) == IF a >= b THEN a ELSE b

\* the other slots of Qc are as handed in
OtherSlotsKept(a, r) == \A o \in Offsets \ {a.off_L} : r.Qc[o] = a.Qc[o]

\* C4 as stated: on an active element IntLoadConstraint_C with clamping adds
\* c*C[0] clamped to [-recovery_clamp, +recovery_clamp] in BILATERAL mode and
\* min(c*C[0], recovery_clamp) in the one-sided modes; without clamping c*C[0].
LoadConstraintUpperClamp ==
    (op = "IntLoadConstraint_C" /\ active) =>
        /\ OtherSlotsKept(arg, out)
        /\ out.Qc[arg.off_L] - arg.Qc[arg.off_L] =
             (IF arg.do_clamp
              THEN IF mode = "BILATERAL"
                   THEN MinOf(MaxOf(arg.c * C, 0 - arg.recovery_clamp), arg.recovery_clamp)
                   ELSE MinOf(arg.c * C, arg.recovery_clamp)
              ELSE arg.c * C)

\* C4 amended: in the one-sided modes the clamped amount is
\* max(c*C[0], -recovery_clamp): a lower clamp at -recovery_clamp, no upper clamp.
LoadConstraintLowerClamp ==
    (op = "IntLoadConstraint_C" /\ active) =>
        /\ OtherSlotsKept(arg, out)
        /\ out.Qc[arg.off_L] - arg.Qc[arg.off_L] =
             (IF arg.do_clamp
              THEN IF mode = "BILATERAL"
                   THEN MinOf(MaxOf(arg.c * C, 0 - arg.recovery_clamp), arg.recovery_clamp)
                   ELSE MaxOf(arg.c * C, 0 - arg.recovery_clamp)
              ELSE arg.c * C)

\* a one-sided element, clamping requested, c*C[0] above the recovery limit:
\* the whole of c*C[0] was added
OneSidedAboveLimit ==
    /\ op = "IntLoadConstraint_C" /\ active
    /\ mode # "BILATERAL"
    /\ arg.do_clamp
    /\ arg.c * C > arg.recovery_clamp
    /\ out.Qc[arg.off_L] = arg.Qc[arg.off_L] + arg.c * C

\* C5: on an active element ConstraintsBiLoad_C adds to b_i what
\* IntLoadConstraint_C adds to Qc(off_L) for the same scale factor, clamp flag
\* and recovery limit, in every mode.
BiLoadSameAsLoadConstraint ==
    [][ (op' = "ConstraintsBiLoad_C" /\ active) =>
            Cx'.b_i - Cx.b_i =
                LoadConstraintTerm(arg'.factor, arg'.do_clamp, arg'.recovery_clamp) ]_vars

\* C6: on an active element IntToDescriptor stores L(off_L) as the multiplier
\* and Qc(off_L) as the bias, and an IntFromDescriptor that follows it at once
\* hands L(off_L) back, touching no other slot.
PushThenPull ==
    [][ /\ (op' = "IntToDescriptor" /\ active) =>
              /\ Cx'.b_i = arg'.Qc[arg'.off_L]
              /\ Cx'.l_i = arg'.L[arg'.off_L]
        /\ (op = "IntToDescriptor" /\ op' = "IntFromDescriptor" /\ active) =>
              /\ out'.L[arg'.off_L] = arg.L[arg.off_L]
              /\ \A o \in Offsets \ {arg'.off_L} : out'.L[o] = arg'.L[o] ]_vars

\* a pull that overwrote the caller's slot with a pushed multiplier
PulledPushedMultiplier ==
    /\ op = "IntFromDescriptor" /\ active
    /\ Cx.l_i = -1 /\ Cx.b_i = 1
    /\ arg.L[arg.off_L] = 1
    /\ out.L[arg.off_L] = -1

\* C7 as stated: IntStateGatherReactions writes Cx.l_i into L(off_L), and
\* IntStateScatterReactions stores L(off_L) as the multiplier of Cx.
GatherScatterUseMultiplier ==
    /\ (op = "IntStateGatherReactions") => (out.L[arg.off_L] = Cx.l_i)
    /\ (op = "IntStateScatterReactions") => (Cx.l_i = arg.L[arg.off_L])

\* C7 amended: IntStateGatherReactions writes -react_force.x into L(off_L);
\* IntStateScatterReactions stores -L(off_L) in react_force.x, zeroes the rest of
\* the reaction and leaves Cx alone; a gather right after a scatter hands the
\* scattered value back, a gather right after ConstraintsFetch_react(factor)
\* hands back l_i * factor.
GatherScatterUseReaction ==
    [][ /\ (op' = "IntStateGatherReactions") =>
              /\ out'.L[arg'.off_L] = 0 - react_force[1]
              /\ \A o \in Offsets \ {arg'.off_L} : out'.L[o] = arg'.L[o]
        /\ (op' = "IntStateScatterReactions") =>
              /\ react_force' = <<0 - arg'.L[arg'.off_L], 0, 0>>
              /\ react_torque' = VNULL
              /\ Cx' = Cx
        /\ (op = "IntStateScatterReactions" /\ op' = "IntStateGatherReactions") =>
              out'.L[arg'.off_L] = arg.L[arg.off_L]
        /\ (op = "ConstraintsFetch_react" /\ op' = "IntStateGatherReactions") =>
              out'.L[arg'.off_L] = Cx.l_i * arg.factor ]_vars

\* a gather that handed back the reaction, not the multiplier of Cx
GatheredReactionNotMultiplier ==
    /\ op = "IntStateGatherReactions"
    /\ react_force[1] # 0
    /\ out.L[arg.off_L] = 0 - react_force[1]
    /\ out.L[arg.off_L] # Cx.l_i
    /\ Cx.l_i # 0

\* C8: Initialize with a null body handle returns a failure result and leaves
\* mode, mode_sign, constraint kind, bodies, anchors, target distance and
\* violation as they were.
NullHandleFails ==
    [][ (op' = "Initialize" /\ (arg'.mbody1 = NULL \/ arg'.mbody2 = NULL)) =>
            /\ out'.returned /\ out'.ret = 0
            /\ UNCHANGED <<mode, mode_sign, Body1, Body2, pos1, pos2, distance, C>>
            /\ Cx'.mode = Cx.mode ]_vars

HasNaN(row) == \E i \in DOMAIN row : IsNaN(row[i])

\* C9: an Update with coinciding anchors does not rewrite the Jacobian row (it
\* keeps its values, or is zero), stores no not-a-number in the Jacobian or the
\* violation, and no not-a-number reaches a residual accumulated afterwards.
ZeroSeparationGuarded ==
    [][ /\ (op' = "Update" /\ DeltaPos(Body1, Body2, pos1, pos2) = VNULL) =>
              /\ \/ (Cx'.Cq_a = Cx.Cq_a /\ Cx'.Cq_b = Cx.Cq_b)
                 \/ (Cx'.Cq_a = ZeroRow /\ Cx'.Cq_b = ZeroRow)
              /\ ~HasNaN(Cx'.Cq_a) /\ ~HasNaN(Cx'.Cq_b) /\ ~IsNaN(C')
        /\ (op' = "IntLoadResidual_CqL") => ~HasNaN(out'.R) ]_vars

\* C10: SetMode changes mode, mode_sign and the constraint kind only; after a
\* SetMode that flips the sign, C[0] and the Jacobian row keep the sign of the
\* previous mode, and IntLoadConstraint_C called then adds that old-sign C[0].
SetModeKeepsViolation ==
    [][ /\ (op' = "SetMode") =>
              /\ UNCHANGED <<curr_dist, C, distance, pos1, pos2>>
              /\ Cx'.Cq_a = Cx.Cq_a /\ Cx'.Cq_b = Cx.Cq_b
              /\ Cx'.l_i = Cx.l_i /\ Cx'.b_i = Cx.b_i
        /\ (op' = "SetMode" /\ mode_sign' # mode_sign /\ op = "Update") =>
              C' = 0 - mode_sign' * (curr_dist' - distance')
        /\ (op = "SetMode" /\ op' = "IntLoadConstraint_C" /\ active /\ ~arg'.do_clamp) =>
              out'.Qc[arg'.off_L] = arg'.Qc[arg'.off_L] + arg'.c * C ]_vars

\* IntLoadConstraint_C right after a sign-flipping SetMode: the violation added
\* has the sign opposite to the current mode's
StaleSignUsed ==
    /\ op = "IntLoadConstraint_C" /\ active /\ ~arg.do_clamp
    /\ C # 0
    /\ C = 0 - mode_sign * (curr_dist - distance)
    /\ Cx.Cq_a # ZeroRow
    /\ out.Qc[arg.off_L] = arg.Qc[arg.off_L] + arg.c * C

====
